---- MODULE Spec2Model ----
(***************************************************************************)
(* Game of Life on a torus, rendered with ANSI 4 bit colours               *)
(* (src/gol_color.c).  The module models the simulation stepper            *)
(* do_gen_naive, the frame encoder fill_draw_buffer_4bit_color, the        *)
(* one-time escape-code initialisation and the driver main, with the       *)
(* SIGINT handler as an asynchronous action.                               *)
(*                                                                         *)
(* Memory is modelled at the level the code works at: grid buffers are     *)
(* arrays of bytes indexed from 0, the draw buffer is an array of 16 bit   *)
(* little-endian words indexed from 0, and front_buffer / back_buffer are  *)
(* pointers (names of the two physical buffers).                           *)
(***************************************************************************)
EXTENDS Integers, Sequences, FiniteSets, TLC

VARIABLES
    pc,                 \* position of main (or of the harness)
    argv,               \* command line after the program name, argv[1..]
    msg,                \* last diagnostic written: "none", "usage", "bad input", "malloc failed"
    exit_code,          \* return value of main, -1 while running
    active_tokens_4bit, \* the selected token table: "color" or "bw"
    height, width, max_fps,
    mem,                \* the two physical grid buffers: mem["A"], mem["B"]
    front_buffer, back_buffer,   \* pointers: "NULL", "A" or "B"
    draw_buffer,        \* the frame buffer, uint16_t words
    oob,                \* a word outside draw_buffer has been written
    gen,                \* the loop counter of main
    status,             \* volatile sig_atomic_t status
    G0,                 \* history: the grid left by the randomisation
    frames,             \* history: number of frames written to stdout
    last_gen,           \* history: the number printed by the last "gen: %lu"
    frames_after_sig,   \* history: frames written while status = SIGINT
    reset_written       \* history: reset_font_code written by the status check

vars == <<pc, argv, msg, exit_code, active_tokens_4bit, height, width, max_fps,
          mem, front_buffer, back_buffer, draw_buffer, oob, gen, status,
          G0, frames, last_gen, frames_after_sig, reset_written>>

----------------------------------------------------------------------------
(* Bounds of the model *)

\* the driver is explored for this many loop iterations under Spec
MaxGen == 3
\* the stepper harness draws every grid with at most this many cells
MaxStepCells == 9
\* the encoder harness draws every pair of grids with at most this many cells
MaxEncCells == 4

----------------------------------------------------------------------------
(* Program constants *)

SIGINT == 2
GEN_LIMIT == 50000
MIN_DIM == 1
MAX_DIM == 2000
MIN_FPS == 0
MAX_FPS == 4800
ESC_BRACKET == 23323     \* 0x5B1B  "\033["
PLACEHOLDER == 12336     \* 0x3030  "00"
M_SPACE == 8301          \* 0x206D  "m "
M_NEWLINE == 2669        \* 0x0A6D  "m\n"
UNIT_WORDS == 3          \* 6 bytes per cell and per row terminator
CODE_OFFSET == 1         \* draw_buffer += 1: the colour code word of a unit

\* the content of memory that malloc returned and nothing has written yet
Indeterminate == -1

----------------------------------------------------------------------------
(* do_gen_naive *)

\* src_buffer[(dy + y + h) % h * w + (dx + x + w) % w]
NeighbourIndex(y, x, dy, dx, h, w) == ((dy + y + h) % h) * w + ((dx + x + w) % w)

\* the inner loop: dx from -1 to 1, live_count += src[...]
RowCount(src, y, x, dy, h, w) ==
      src[NeighbourIndex(y, x, dy, -1, h, w)]
    + src[NeighbourIndex(y, x, dy, 0, h, w)]
    + src[NeighbourIndex(y, x, dy, 1, h, w)]

\* the loop around it: dy from -1 to 1
LiveCount(src, y, x, h, w) ==
      RowCount(src, y, x, -1, h, w)
    + RowCount(src, y, x, 0, h, w)
    + RowCount(src, y, x, 1, h, w)

\* the 'a & b' of two values that are 0 or 1 on the left
BitAnd01(a, b) == IF a = 1 /\ b % 2 = 1 THEN 1 ELSE 0

\* the rule without the '& src[y * w + x]'
RuleNoSelfTest(live_count, self) ==
    IF live_count = 3 \/ live_count = 4 THEN 1 ELSE 0

\* ((live_count == 3) | ((live_count == 4) & src[y * w + x])) != 0
Rule(live_count, self) ==
    LET three == IF live_count = 3 THEN 1 ELSE 0
        four  == IF live_count = 4 THEN 1 ELSE 0
    IN  IF three = 1 \/ BitAnd01(four, self) # 0 THEN 1 ELSE 0

\* The y and x loops over memory m: cell k = y * w + x of buffer dst is
\* written from what buffer src holds at that moment.
RECURSIVE GenLoop(_, _, _, _, _, _)
GenLoop(m, dst, src, h, w, k) ==
    IF k >= h * w THEN m
    ELSE LET y == k \div w
             x == k % w
             v == Rule(LiveCount(m[src], y, x, h, w), m[src][y * w + x])
         IN  GenLoop([m EXCEPT ![dst][y * w + x] = v], dst, src, h, w, k + 1)

do_gen_naive(m, dst, src, h, w) == GenLoop(m, dst, src, h, w, 0)

----------------------------------------------------------------------------
(* Token tables and fill_draw_buffer_4bit_color *)

\* {0x3034, 0x3134, 0x3234, 0x3734}
color_tokens_4bit == [i \in 0 .. 3 |-> <<12340, 12596, 12852, 14132>>[i + 1]]
\* {0x3034, 0x3734, 0x3034, 0x3734}
bw_tokens_4bit == [i \in 0 .. 3 |-> <<12340, 14132, 12340, 14132>>[i + 1]]

\* what the pointer active_tokens_4bit points to
Tokens(name) == IF name = "bw" THEN bw_tokens_4bit ELSE color_tokens_4bit

\* bitwise or of two naturals
RECURSIVE BitOr(_, _)
BitOr(a, b) ==
    IF a = 0 THEN b
    ELSE IF b = 0 THEN a
    ELSE (IF a % 2 = 1 \/ b % 2 = 1 THEN 1 ELSE 0) + 2 * BitOr(a \div 2, b \div 2)

\* the index with the two states exchanged: ((*pbp) << 1) | *abp
TokenIndexSwapped(a, p) == BitOr(p * 2, a)

\* ((*abp) << 1) | *pbp
TokenIndex(a, p) == BitOr(a * 2, p)

\* active_tokens_4bit[idx]; a read past the table yields an indeterminate word
TokenAt(tokens, idx) == IF idx \in DOMAIN tokens THEN tokens[idx] ELSE Indeterminate

\* *p = v on the draw buffer d = [words, oob]; a store outside the allocation
\* is recorded in oob
Store(d, p, v) ==
    IF p \in DOMAIN d.words THEN [d EXCEPT !.words[p] = v]
    ELSE [d EXCEPT !.oob = TRUE]

\* the pointer steps of the encoder: draw_buffer += 3 after a cell, and once
\* more at the end of a row
CellStride == UNIT_WORDS
\* the encoder without the step at the end of a row
RowStrideNone == UNIT_WORDS - UNIT_WORDS

RowStride == UNIT_WORDS

\* The y and x loops of the encoder; k is the common offset of abp and pbp,
\* p the offset of draw_buffer.
RECURSIVE FillLoop(_, _, _, _, _, _, _, _, _, _)
FillLoop(d, tokens, active, prev, h, w, y, x, k, p) ==
    IF y >= h THEN d
    ELSE IF x >= w
         THEN FillLoop(d, tokens, active, prev, h, w, y + 1, 0, k, p + RowStride)
         ELSE FillLoop(Store(d, p, TokenAt(tokens, TokenIndex(active[k], prev[k]))),
                       tokens, active, prev, h, w, y, x + 1, k + 1, p + CellStride)

fill_draw_buffer_4bit_color(words, tokens, active, prev, h, w) ==
    FillLoop([words |-> words, oob |-> FALSE], tokens, active, prev, h, w,
             0, 0, 0, CODE_OFFSET)

----------------------------------------------------------------------------
(* main: sizes and the escape code initialisation *)

\* uint draw_buffer_area = 3 * (width + 1) * height
draw_buffer_area(h, w) == 3 * (w + 1) * h

Store3(d, p, a, b, c) == Store(Store(Store(d, p, a), p + 1, b), p + 2, c)

RECURSIVE ScaffoldLoop(_, _, _, _, _, _)
ScaffoldLoop(d, h, w, y, x, p) ==
    IF y >= h THEN d
    ELSE IF x >= w
         THEN ScaffoldLoop(Store3(d, p, ESC_BRACKET, PLACEHOLDER, M_NEWLINE),
                           h, w, y + 1, 0, p + 3)
         ELSE ScaffoldLoop(Store3(d, p, ESC_BRACKET, PLACEHOLDER, M_SPACE),
                           h, w, y, x + 1, p + 3)

init_escape_codes(words, h, w) ==
    ScaffoldLoop([words |-> words, oob |-> FALSE], h, w, 0, 0, 0)

\* malloc(n * sizeof ...): n cells nobody has written yet
Fresh(n) == [i \in 0 .. n - 1 |-> Indeterminate]

\* every array of n cells that are 0 or 1
Grids(n) == [0 .. n - 1 -> {0, 1}]

----------------------------------------------------------------------------
(* main: the command line.  A string is a sequence of one-character strings. *)

Digits == {"0", "1", "2", "3", "4", "5", "6", "7", "8", "9"}

DigitValue(c) ==
    CASE c = "0" -> 0 [] c = "1" -> 1 [] c = "2" -> 2 [] c = "3" -> 3 [] c = "4" -> 4
      [] c = "5" -> 5 [] c = "6" -> 6 [] c = "7" -> 7 [] c = "8" -> 8 [] c = "9" -> 9

\* tolower, on the letters the command lines of the model use
ToLower(c) ==
    CASE c = "H" -> "h" [] c = "B" -> "b" [] c = "W" -> "w" [] c = "X" -> "x"
      [] OTHER -> c

\* the character at 1-based position i of a C string; "NUL" is its terminator
CharAt(s, i) == IF i <= Len(s) THEN ToLower(s[i]) ELSE "NUL"

\* strncasecmp(a, b, n) == 0
StrNCaseEq(a, b, n) ==
    LET m == IF Len(a) < Len(b) THEN Len(a) ELSE Len(b)
    IN  \A i \in 1 .. n : i <= m + 1 => CharAt(a, i) = CharAt(b, i)

RECURSIVE SkipSpaces(_, _)
SkipSpaces(s, i) == IF i <= Len(s) /\ s[i] = " " THEN SkipSpaces(s, i + 1) ELSE i

\* the digits of s from position i on: [val, next], next the first position
\* that is not a digit
RECURSIVE ParseDigits(_, _, _)
ParseDigits(s, i, acc) ==
    IF i <= Len(s) /\ s[i] \in Digits
    THEN ParseDigits(s, i + 1, acc * 10 + DigitValue(s[i]))
    ELSE [val |-> acc, next |-> i]

\* The largest value the model's integers hold stands for ULONG_MAX: the
\* driver only compares the result with its minimum and maximum.
UnsignedMax == 2 * (2 ^ 30 - 1) + 1

\* strtoul(s, &end, 10): white space, an optional sign, decimal digits.
\* consumed = end - s, 0 when no conversion was done.  A minus sign negates
\* the value in unsigned arithmetic.  The command lines of the model hold
\* at most four digits, so the conversion never overflows.
strtoul(s) ==
    LET i0   == SkipSpaces(s, 1)
        sign == i0 <= Len(s) /\ s[i0] \in {"+", "-"}
        i1   == IF sign THEN i0 + 1 ELSE i0
        d    == ParseDigits(s, i1, 0)
    IN  IF d.next = i1
        THEN [val |-> 0, consumed |-> 0, erange |-> FALSE]
        ELSE [val |-> IF sign /\ s[i0] = "-" /\ d.val > 0
                      THEN UnsignedMax - d.val + 1 ELSE d.val,
              consumed |-> d.next - 1, erange |-> FALSE]

\* argc, with the program name
Argc(av) == Len(av) + 1

\* argc < 4 || (argc > 1 && (strncasecmp(argv[1], "-h", 2) == 0 ||
\*                           strncasecmp(argv[1], "--help", 6) == 0))
WantsUsage(av) ==
    \/ Argc(av) < 4
    \/ /\ Argc(av) > 1
       /\ \/ StrNCaseEq(av[1], <<"-", "h">>, 2)
          \/ StrNCaseEq(av[1], <<"-", "-", "h", "e", "l", "p">>, 6)

\* argc >= 5 && (strncasecmp("-bw", argv[1], 4) == 0 || strncasecmp("--bw", argv[1], 5) == 0)
WantsBw(av) ==
    /\ Argc(av) >= 5
    /\ \/ StrNCaseEq(<<"-", "b", "w">>, av[1], 4)
       \/ StrNCaseEq(<<"-", "-", "b", "w">>, av[1], 5)

\* argv after the optional argv++
Shifted(av) == IF WantsBw(av) THEN Tail(av) ELSE av

min_vals == <<MIN_DIM, MIN_DIM, MIN_FPS>>
max_vals == <<MAX_DIM, MAX_DIM, MAX_FPS>>

\* the test without the comparison with min_vals
BadArgNoMin(av, i) ==
    LET r == strtoul(av[i])
    IN  \/ r.consumed = 0
        \/ r.consumed # Len(av[i])
        \/ r.erange
        \/ max_vals[i] < r.val

\* the test of the validation loop for argument i (1-based): TRUE when the
\* argument is rejected
BadArg(av, i) ==
    LET r == strtoul(av[i])
    IN  \/ r.consumed = 0               \* end == argv[i + 1]
        \/ r.consumed # Len(av[i])      \* *end != '\0'
        \/ r.erange                     \* errno == ERANGE
        \/ r.val < min_vals[i]
        \/ max_vals[i] < r.val

\* the loop returns at the first rejected argument
AnyBadArg(av) == \E i \in 1 .. 3 : BadArg(av, i)

\* uint sleep_seconds = max_fps ? (1 / max_fps) : 0
sleep_seconds(fps) == IF fps # 0 THEN 1 \div fps ELSE 0
\* uint sleep_ns = max_fps ? (1000000000 / max_fps % 1000000000) : 0
sleep_ns(fps) == IF fps # 0 THEN (1000000000 \div fps) % 1000000000 ELSE 0

----------------------------------------------------------------------------
(* main: the steps of the driver *)

\* a mask of 0x03 per byte instead
KeepTwoBits(b) == b % 4

\* & 0x0101010101010101 on one byte of the hash: keep its first bit
KeepFirstBit(b) == b % 2

\* bytes of the hash words the randomisation draws (any byte may occur; these
\* sample both values of the first bit, with and without higher bits set)
HashBytes == {0, 255}

\* the rotation without tmp (front = back; back = front), and no rotation
RotateNoTmp(f, b) == <<b, b>>
RotateSkipped(f, b) == <<f, b>>

\* tmp = front; front = back; back = tmp: the new <<front, back>>
Rotate(f, b) == <<b, f>>

\* a loop that does not look at status
InterruptedNever(st) == FALSE

\* if (status == SIGINT)
Interrupted(st) == st = SIGINT

\* the loop test with <= for <
LoopGuardInclusive(g) == g <= GEN_LIMIT

\* while (gen++ < 50000)
LoopGuard(g) == g < GEN_LIMIT

\* the state of the process before main runs, or of a harness before its call
Start(p, av, tok, h, w, m, f, b, d, g0) ==
    /\ pc = p
    /\ argv = av
    /\ msg = "none"
    /\ exit_code = -1
    /\ active_tokens_4bit = tok
    /\ height = h
    /\ width = w
    /\ max_fps = 0
    /\ mem = m
    /\ front_buffer = f
    /\ back_buffer = b
    /\ draw_buffer = d
    /\ oob = FALSE
    /\ gen = 0
    /\ status = 0
    /\ G0 = g0
    /\ frames = 0
    /\ last_gen = 0
    /\ frames_after_sig = 0
    /\ reset_written = FALSE

\* lines 103-106: the usage message, return 0
Usage ==
    /\ pc = "main"
    /\ WantsUsage(argv)
    /\ msg' = "usage"
    /\ exit_code' = 0
    /\ pc' = "exit"
    /\ UNCHANGED <<argv, active_tokens_4bit, height, width, max_fps, mem,
                   front_buffer, back_buffer, draw_buffer, oob, gen, status, G0,
                   frames, last_gen, frames_after_sig, reset_written>>

\* lines 107-124 with a rejected argument: "bad input", return 1
BadInput ==
    /\ pc = "main"
    /\ ~WantsUsage(argv)
    /\ AnyBadArg(Shifted(argv))
    /\ active_tokens_4bit' = IF WantsBw(argv) THEN "bw" ELSE active_tokens_4bit
    /\ msg' = "bad input"
    /\ exit_code' = 1
    /\ pc' = "exit"
    /\ UNCHANGED <<argv, height, width, max_fps, mem, front_buffer, back_buffer,
                   draw_buffer, oob, gen, status, G0, frames, last_gen,
                   frames_after_sig, reset_written>>

\* lines 107-135 with three accepted arguments
AcceptArgs ==
    /\ pc = "main"
    /\ ~WantsUsage(argv)
    /\ ~AnyBadArg(Shifted(argv))
    /\ active_tokens_4bit' = IF WantsBw(argv) THEN "bw" ELSE active_tokens_4bit
    /\ height' = strtoul(Shifted(argv)[1]).val
    /\ width' = strtoul(Shifted(argv)[2]).val
    /\ max_fps' = strtoul(Shifted(argv)[3]).val
    /\ pc' = "alloc"
    /\ UNCHANGED <<argv, msg, exit_code, mem, front_buffer, back_buffer,
                   draw_buffer, oob, gen, status, G0, frames, last_gen,
                   frames_after_sig, reset_written>>

\* lines 137-139, all three malloc calls succeed.  Of each grid buffer the
\* model keeps the height * width cells; the padding up to buffer_area is
\* written by the randomisation and the memcpy and never read.
Alloc ==
    /\ pc = "alloc"
    /\ draw_buffer' = Fresh(draw_buffer_area(height, width))
    /\ mem' = [b \in {"A", "B"} |-> Fresh(height * width)]
    /\ front_buffer' = "A"
    /\ back_buffer' = "B"
    /\ pc' = "randomize"
    /\ UNCHANGED <<argv, msg, exit_code, active_tokens_4bit, height, width,
                   max_fps, oob, gen, status, G0, frames, last_gen,
                   frames_after_sig, reset_written>>

\* lines 140-143: a malloc returned NULL
AllocFail ==
    /\ pc = "alloc"
    /\ msg' = "malloc failed"
    /\ exit_code' = 1
    /\ pc' = "exit"
    /\ UNCHANGED <<argv, active_tokens_4bit, height, width, max_fps, mem,
                   front_buffer, back_buffer, draw_buffer, oob, gen, status, G0,
                   frames, last_gen, frames_after_sig, reset_written>>

\* lines 145-154: front_buffer is filled from the hash, one bit per byte
Randomize ==
    /\ pc = "randomize"
    /\ \E r \in [0 .. height * width - 1 -> HashBytes] :
          LET g == [i \in 0 .. height * width - 1 |-> KeepFirstBit(r[i])]
          IN  /\ mem' = [mem EXCEPT ![front_buffer] = g]
              /\ G0' = g
    /\ pc' = "memcpy"
    /\ UNCHANGED <<argv, msg, exit_code, active_tokens_4bit, height, width,
                   max_fps, front_buffer, back_buffer, draw_buffer, oob, gen,
                   status, frames, last_gen, frames_after_sig, reset_written>>

\* line 156: memcpy(back_buffer, front_buffer, buffer_area)
CopyBack ==
    /\ pc = "memcpy"
    /\ mem' = [mem EXCEPT ![back_buffer] = mem[front_buffer]]
    /\ pc' = "init_codes"
    /\ UNCHANGED <<argv, msg, exit_code, active_tokens_4bit, height, width,
                   max_fps, front_buffer, back_buffer, draw_buffer, oob, gen,
                   status, G0, frames, last_gen, frames_after_sig, reset_written>>

\* lines 157-171: the escape codes, then uint gen = 0
InitCodes ==
    /\ pc = "init_codes"
    /\ LET d == init_escape_codes(draw_buffer, height, width)
       IN  /\ draw_buffer' = d.words
           /\ oob' = (oob \/ d.oob)
    /\ gen' = 0
    /\ pc' = "loop"
    /\ UNCHANGED <<argv, msg, exit_code, active_tokens_4bit, height, width,
                   max_fps, mem, front_buffer, back_buffer, status, G0, frames,
                   last_gen, frames_after_sig, reset_written>>

\* lines 172-178 and 198: the loop test, then the check of status
LoopTest ==
    /\ pc = "loop"
    /\ gen' = gen + 1
    /\ IF LoopGuard(gen)
       THEN IF Interrupted(status)
            THEN /\ reset_written' = TRUE
                 /\ exit_code' = 0
                 /\ pc' = "exit"
            ELSE /\ pc' = "encode"
                 /\ UNCHANGED <<reset_written, exit_code>>
       ELSE /\ exit_code' = 0
            /\ pc' = "exit"
            /\ UNCHANGED reset_written
    /\ UNCHANGED <<argv, msg, active_tokens_4bit, height, width, max_fps, mem,
                   front_buffer, back_buffer, draw_buffer, oob, status, G0,
                   frames, last_gen, frames_after_sig>>

\* line 179
Encode ==
    /\ pc = "encode"
    /\ LET d == fill_draw_buffer_4bit_color(draw_buffer, Tokens(active_tokens_4bit),
                    mem[front_buffer], mem[back_buffer], height, width)
       IN  /\ draw_buffer' = d.words
           /\ oob' = (oob \/ d.oob)
    /\ pc' = "draw"
    /\ UNCHANGED <<argv, msg, exit_code, active_tokens_4bit, height, width,
                   max_fps, mem, front_buffer, back_buffer, gen, status, G0,
                   frames, last_gen, frames_after_sig, reset_written>>

\* lines 180-187: the frame and "gen: %lu" go to stdout
Draw ==
    /\ pc = "draw"
    /\ frames' = frames + 1
    /\ last_gen' = gen
    /\ frames_after_sig' = frames_after_sig + (IF status = SIGINT THEN 1 ELSE 0)
    /\ pc' = "rotate"
    /\ UNCHANGED <<argv, msg, exit_code, active_tokens_4bit, height, width,
                   max_fps, mem, front_buffer, back_buffer, draw_buffer, oob, gen,
                   status, G0, reset_written>>

\* lines 188-192
RotateBuffers ==
    /\ pc = "rotate"
    /\ front_buffer' = Rotate(front_buffer, back_buffer)[1]
    /\ back_buffer' = Rotate(front_buffer, back_buffer)[2]
    /\ pc' = "step"
    /\ UNCHANGED <<argv, msg, exit_code, active_tokens_4bit, height, width,
                   max_fps, mem, draw_buffer, oob, gen, status, G0, frames,
                   last_gen, frames_after_sig, reset_written>>

\* line 193: do_gen_naive(front_buffer, back_buffer, height, width)
StepGen ==
    /\ pc = "step"
    /\ mem' = do_gen_naive(mem, front_buffer, back_buffer, height, width)
    /\ pc' = IF sleep_seconds(max_fps) # 0 \/ sleep_ns(max_fps) # 0
             THEN "sleep" ELSE "loop"
    /\ UNCHANGED <<argv, msg, exit_code, active_tokens_4bit, height, width,
                   max_fps, front_buffer, back_buffer, draw_buffer, oob, gen,
                   status, G0, frames, last_gen, frames_after_sig, reset_written>>

\* lines 194-195: the pacing sleep returns
Sleep ==
    /\ pc = "sleep"
    /\ pc' = "loop"
    /\ UNCHANGED <<argv, msg, exit_code, active_tokens_4bit, height, width,
                   max_fps, mem, front_buffer, back_buffer, draw_buffer, oob, gen,
                   status, G0, frames, last_gen, frames_after_sig, reset_written>>

DriverPcs == {"main", "alloc", "randomize", "memcpy", "init_codes", "loop",
              "encode", "draw", "rotate", "step", "sleep"}

\* lines 80-82: SIGINT is delivered while main runs (the handler is installed
\* by the first statement of main)
catch_function ==
    /\ pc \in DriverPcs
    /\ status' = SIGINT
    /\ UNCHANGED <<pc, argv, msg, exit_code, active_tokens_4bit, height, width,
                   max_fps, mem, front_buffer, back_buffer, draw_buffer, oob, gen,
                   G0, frames, last_gen, frames_after_sig, reset_written>>

\* one step of main
MainStep ==
    \/ Usage \/ BadInput \/ AcceptArgs \/ Alloc \/ AllocFail \/ Randomize
    \/ CopyBack \/ InitCodes \/ Encode \/ Draw \/ RotateBuffers \/ StepGen \/ Sleep

----------------------------------------------------------------------------
(* Specifications *)

\* Command lines the driver is started with
DimArgs == {<<"2">>, <<"3">>, <<"0">>, <<"2", "0", "0", "1">>, <<"2", "x">>,
            <<"-", "1">>, <<"x">>}
FpsArgs == {<<"0">>, <<"4", "8", "0", "0">>, <<"4", "8", "0", "1">>, <<"5", " ">>}
FlagArgs == {<<"-", "b", "w">>, <<"-", "-", "B", "W">>, <<"-", "b">>,
             <<"-", "H">>, <<"-", "-", "h", "e", "l", "p">>}
FlaggedArgs == {<<<<"2">>, <<"2">>, <<"0">>>>,
                <<<<"1">>, <<"+", "3">>, <<"4", "8", "0", "0">>>>,
                <<<<" ", "2">>, <<"1">>, <<"-", "0">>>>,
                <<<<"2">>, <<"0">>, <<"0">>>>,
                <<<<"2">>, <<"2">>, <<>>>>}
ArgvSamples ==
    {<<>>, <<<<"2">>>>, <<<<"2">>, <<"2">>>>, <<<<"0">>, <<"2">>>>}
    \cup (DimArgs \X DimArgs \X FpsArgs)
    \cup {<<f>> \o a : f \in FlagArgs, a \in FlaggedArgs}

NoBuffers == [b \in {"A", "B"} |-> Fresh(0)]

Init ==
    \E av \in ArgvSamples :
        Start("main", av, "color", 0, 0, NoBuffers, "NULL", "NULL", Fresh(0), Fresh(0))

\* the driver, explored for the first MaxGen iterations of its loop
Next ==
    \/ MainStep
    \/ (gen < MaxGen /\ LoopTest)
    \/ catch_function

Spec == Init /\ [][Next]_vars

\* The driver with its whole loop, on the smallest grid
InitFull ==
    \E av \in {<<<<"1">>, <<"1">>, <<"4", "8", "0", "0">>>>,
               <<<<"1">>, <<"1">>>>,
               <<<<"0">>, <<"1">>, <<"0">>>>} :
        Start("main", av, "color", 0, 0, NoBuffers, "NULL", "NULL", Fresh(0), Fresh(0))

NextFull == MainStep \/ LoopTest \/ catch_function

\* main is never suspended for ever: every step it can take it takes
SpecFull == InitFull /\ [][NextFull]_vars /\ WF_vars(MainStep \/ LoopTest)

\* do_gen_naive called on any grid; dst is memory nobody has written
InitStep ==
    \E h \in 1 .. MaxStepCells, w \in 1 .. MaxStepCells :
        /\ h * w <= MaxStepCells
        /\ \E src \in Grids(h * w) :
              Start("call_step", <<>>, "color", h, w,
                    [b \in {"A", "B"} |-> IF b = "A" THEN Fresh(h * w) ELSE src],
                    "A", "B", Fresh(0), src)

CallStep ==
    /\ pc = "call_step"
    /\ mem' = do_gen_naive(mem, front_buffer, back_buffer, height, width)
    /\ pc' = "stepped"
    /\ UNCHANGED <<argv, msg, exit_code, active_tokens_4bit, height, width,
                   max_fps, front_buffer, back_buffer, draw_buffer, oob, gen,
                   status, G0, frames, last_gen, frames_after_sig, reset_written>>

NextStep == CallStep

SpecStep == InitStep /\ [][NextStep]_vars

\* the escape code initialisation and then fill_draw_buffer_4bit_color, called
\* with either token table on any pair of grids (front: current, back: previous)
InitEncode ==
    \E h \in 1 .. MaxEncCells, w \in 1 .. MaxEncCells, tok \in {"color", "bw"} :
        /\ h * w <= MaxEncCells
        /\ \E cur \in Grids(h * w), prev \in Grids(h * w) :
              Start("call_init", <<>>, tok, h, w,
                    [b \in {"A", "B"} |-> IF b = "A" THEN cur ELSE prev],
                    "A", "B", Fresh(draw_buffer_area(h, w)), cur)

CallInitCodes ==
    /\ pc = "call_init"
    /\ LET d == init_escape_codes(draw_buffer, height, width)
       IN  /\ draw_buffer' = d.words
           /\ oob' = (oob \/ d.oob)
    /\ pc' = "call_fill"
    /\ UNCHANGED <<argv, msg, exit_code, active_tokens_4bit, height, width,
                   max_fps, mem, front_buffer, back_buffer, gen, status, G0,
                   frames, last_gen, frames_after_sig, reset_written>>

CallFill ==
    /\ pc = "call_fill"
    /\ LET d == fill_draw_buffer_4bit_color(draw_buffer, Tokens(active_tokens_4bit),
                    mem[front_buffer], mem[back_buffer], height, width)
       IN  /\ draw_buffer' = d.words
           /\ oob' = (oob \/ d.oob)
    /\ pc' = "filled"
    /\ UNCHANGED <<argv, msg, exit_code, active_tokens_4bit, height, width,
                   max_fps, mem, front_buffer, back_buffer, gen, status, G0,
                   frames, last_gen, frames_after_sig, reset_written>>

NextEncode == CallInitCodes \/ CallFill

SpecEncode == InitEncode /\ [][NextEncode]_vars

----------------------------------------------------------------------------
(* The stepper: C3 *)

\* the eight neighbour offsets <<dy, dx>>
NeighbourOffsets == ((-1 .. 1) \X (-1 .. 1)) \ {<<0, 0>>}

\* the cell at offset o from (x, y) on the torus of h rows and w columns
TorusCell(g, y, x, o, h, w) == g[((y + o[1]) % h) * w + ((x + o[2]) % w)]

\* the number of offsets that lead to a live cell, each offset counted once
LiveNeighbours(g, y, x, h, w) ==
    Cardinality({o \in NeighbourOffsets : TorusCell(g, y, x, o, h, w) = 1})

\* Conway's rule
LifeRule(self, n) == (self = 0 /\ n = 3) \/ (self = 1 /\ n \in {2, 3})

\* C3: do_gen_naive writes 1 into dst[y * width + x] exactly when the cell
\* (x, y) of src is dead with exactly 3 live neighbours or alive with 2 or 3,
\* the neighbours being the eight offsets taken modulo height and width, each
\* counted once; otherwise it writes 0.  With c the number of live cells of
\* the 3x3 window, the cell included, that is: c = 3, or c = 4 and the cell
\* is alive.  src is left as it was.
C3_StepIsLifeRule ==
    pc = "stepped" =>
        /\ mem[back_buffer] = G0
        /\ DOMAIN mem[front_buffer] = 0 .. height * width - 1
        /\ \A y \in 0 .. height - 1, x \in 0 .. width - 1 :
              LET self == G0[y * width + x]
                  n    == LiveNeighbours(G0, y, x, height, width)
                  c    == n + self
                  out  == mem[front_buffer][y * width + x]
              IN  /\ out = (IF LifeRule(self, n) THEN 1 ELSE 0)
                  /\ (out = 1) <=> (c = 3 \/ (c = 4 /\ self = 1))

\* a 3 x 3 grid whose only live cells are the three wrap-around neighbours
\* (height-1, width-1), (height-1, 0), (0, width-1) of the corner (0, 0):
\* the corner is born
C3_Witness ==
    /\ pc = "stepped"
    /\ height = 3 /\ width = 3
    /\ {i \in 0 .. 8 : G0[i] = 1} = {8, 6, 2}
    /\ mem[front_buffer][0] = 1

----------------------------------------------------------------------------
(* The encoder: C1, C2 *)

\* the two ASCII digits of a colour word, first byte first, as a number
ColourCode(word) == ((word % 256) - 48) * 10 + ((word \div 256) - 48)

\* the word that holds the colour code of cell i (row-major), every row
\* ending in one row terminator unit
CodeSlot(i, w) == 3 * (i + i \div w) + 1

\* the colour codes of the cells, in row-major order
CodeSequence == [i \in 1 .. height * width |->
                    ColourCode(draw_buffer[CodeSlot(i - 1, width)])]

CurrentGrid == mem[front_buffer]
PreviousGrid == mem[back_buffer]
ExampleCurrent == [i \in 0 .. 3 |-> <<1, 0, 0, 1>>[i + 1]]
ExamplePrevious == [i \in 0 .. 3 |-> 0]
IsExample ==
    /\ height = 2 /\ width = 2
    /\ CurrentGrid = ExampleCurrent
    /\ PreviousGrid = ExamplePrevious

\* C1: with the monochrome table the code written for a cell is 47 when the
\* cell is alive in current and 40 when it is dead, whatever previous holds;
\* the example grids give [47,40,40,47].
C1_MonochromeShowsCurrent ==
    (pc = "filled" /\ active_tokens_4bit = "bw") =>
        /\ \A i \in 0 .. height * width - 1 :
              ColourCode(draw_buffer[CodeSlot(i, width)])
                  = (IF CurrentGrid[i] = 1 THEN 47 ELSE 40)
        /\ IsExample => CodeSequence = <<47, 40, 40, 47>>

\* the colour of a transition with the colored table
ColoredCode(prev, cur) ==
    CASE prev = 0 /\ cur = 0 -> 40
      [] prev = 0 /\ cur = 1 -> 42
      [] prev = 1 /\ cur = 0 -> 41
      [] prev = 1 /\ cur = 1 -> 47

\* C2: with the colored table the code written into the slot of cell i is 40
\* for dead->dead, 42 for dead->live, 41 for live->dead and 47 for
\* live->live; the example grids give [42,40,40,42].
C2_ColoredTransitions ==
    (pc = "filled" /\ active_tokens_4bit = "color") =>
        /\ \A i \in 0 .. height * width - 1 :
              ColourCode(draw_buffer[CodeSlot(i, width)])
                  = ColoredCode(PreviousGrid[i], CurrentGrid[i])
        /\ IsExample => CodeSequence = <<42, 40, 40, 42>>

C2_Witness ==
    /\ pc = "filled"
    /\ active_tokens_4bit = "color"
    /\ IsExample
    /\ CodeSequence = <<42, 40, 40, 42>>

----------------------------------------------------------------------------
(* The driver: C4 - C10 *)

\* main has passed the start-up (randomisation, copy, escape codes)
LoopPcs == {"loop", "encode", "draw", "rotate", "step", "sleep"}
InLoopOrAfter == pc \in LoopPcs \/ (pc = "exit" /\ gen > 0)

\* unit u of the draw buffer is the terminator of its row
IsRowEnd(u, w) == u % (w + 1) = w

\* the value the escape code initialisation gives word j, for every word
\* that is not the colour code of a cell
ScaffoldWord(j, w) ==
    CASE j % 3 = 0 -> ESC_BRACKET
      [] j % 3 = 1 -> PLACEHOLDER
      [] j % 3 = 2 -> IF IsRowEnd(j \div 3, w) THEN M_NEWLINE ELSE M_SPACE

IsCellCode(j, w) == j % 3 = 1 /\ ~IsRowEnd(j \div 3, w)

\* C4: once the escape codes are initialised, however many frames have been
\* encoded, every prefix word, every suffix word and the colour word of every
\* row terminator holds its initial value, and no word outside the
\* 3 * (width + 1) * height words of the buffer has been written.
C4_ScaffoldingKept ==
    InLoopOrAfter =>
        /\ DOMAIN draw_buffer = 0 .. 3 * (width + 1) * height - 1
        /\ ~oob
        /\ \A j \in DOMAIN draw_buffer :
              ~IsCellCode(j, width) => draw_buffer[j] = ScaffoldWord(j, width)

\* the second frame has been encoded on a grid of several rows, and colour
\* words have been rewritten
C4_Witness ==
    /\ pc = "draw" /\ gen = 2
    /\ height = 3
    /\ \E j \in DOMAIN draw_buffer :
          IsCellCode(j, width) /\ draw_buffer[j] # PLACEHOLDER
    /\ \E i \in 0 .. height * width - 1 : mem[front_buffer][i] # mem[back_buffer][i]

\* one generation of a grid, computed into a fresh buffer
StepGrid(g, h, w) ==
    do_gen_naive([b \in {"A", "B"} |-> IF b = "A" THEN Fresh(h * w) ELSE g],
                 "A", "B", h, w)["A"]

RECURSIVE StepN(_, _, _, _)
StepN(g, n, h, w) == IF n = 0 THEN g ELSE StepN(StepGrid(g, h, w), n - 1, h, w)

\* C5: when frame number n = gen is encoded, front_buffer holds generation
\* n - 1 of the random grid G0 and back_buffer holds generation n - 2 (G0
\* itself for n = 1), and the two physical buffers have changed roles once
\* per iteration.
C5_PingPong ==
    pc = "encode" =>
        /\ mem[front_buffer] = StepN(G0, gen - 1, height, width)
        /\ mem[back_buffer] = (IF gen = 1 THEN G0 ELSE StepN(G0, gen - 2, height, width))
        /\ front_buffer = (IF gen % 2 = 1 THEN "A" ELSE "B")
        /\ back_buffer = (IF gen % 2 = 1 THEN "B" ELSE "A")

\* frame 3 is about to be encoded and generations 0, 1 and 2 all differ
C5_Witness ==
    /\ pc = "encode" /\ gen = 3
    /\ mem[front_buffer] # mem[back_buffer]
    /\ mem[back_buffer] # G0
    /\ mem[front_buffer] # G0

\* C6: a step of main at the encode, draw, rotate or step position does what
\* it does whatever status holds (status is not read there); a check of
\* status that finds SIGINT writes the font reset and leaves the loop, after
\* which main takes no step; and at most one frame (that of the iteration in
\* progress) is written while status = SIGINT.
C6_Cancellation ==
    [][ /\ (pc = "encode" /\ pc' # pc) =>
              /\ pc' = "draw"
              /\ draw_buffer' = fill_draw_buffer_4bit_color(draw_buffer,
                     Tokens(active_tokens_4bit), mem[front_buffer],
                     mem[back_buffer], height, width).words
        /\ (pc = "draw" /\ pc' # pc) => (pc' = "rotate" /\ frames' = frames + 1)
        /\ (pc = "step" /\ pc' # pc) =>
              /\ pc' \in {"sleep", "loop"}
              /\ mem'[front_buffer] = StepGrid(mem[back_buffer], height, width)
        /\ (pc = "loop" /\ status = SIGINT /\ gen < GEN_LIMIT /\ pc' # pc) =>
              /\ pc' = "exit"
              /\ reset_written'
              /\ frames' = frames
              /\ mem' = mem
        /\ pc = "exit" => (pc' = "exit" /\ frames' = frames /\ mem' = mem)
        /\ status = SIGINT => status' = SIGINT
        /\ frames_after_sig' <= 1
      ]_vars

\* SIGINT arrived during an iteration, that iteration wrote its frame, and
\* the next check left the loop
C6_Witness ==
    /\ pc = "exit"
    /\ reset_written
    /\ frames_after_sig = 1
    /\ frames = 2

\* a string of decimal digits only
IsNumeral(s) == Len(s) > 0 /\ \A i \in 1 .. Len(s) : s[i] \in Digits

\* the number a numeral denotes
RECURSIVE NumeralValue(_)
NumeralValue(s) ==
    IF Len(s) = 0 THEN 0
    ELSE 10 * NumeralValue(SubSeq(s, 1, Len(s) - 1)) + DigitValue(s[Len(s)])

\* s without its leading blanks
RECURSIVE Unblanked(_)
Unblanked(s) == IF Len(s) > 0 /\ Head(s) = " " THEN Unblanked(Tail(s)) ELSE s

\* s is an integer in lo .. hi: a numeral in that range
IsIntegerIn(s, lo, hi) == IsNumeral(s) /\ NumeralValue(s) \in lo .. hi

\* strtoul converts all of s to a value in lo .. hi: blanks, an optional sign
\* and a numeral, a minus sign only before a numeral of value 0
ConvertsInto(s, lo, hi) ==
    LET t == Unblanked(s)
        signed == Len(t) > 0 /\ Head(t) \in {"+", "-"}
        n == IF signed THEN Tail(t) ELSE t
    IN  /\ IsNumeral(n)
        /\ NumeralValue(n) \in lo .. hi
        /\ (signed /\ Head(t) = "-") => NumeralValue(n) = 0

\* the command line names a height, a width and a max_FPS
HasThreeArgs(av) == Len(Shifted(av)) >= 3

NothingDone ==
    /\ front_buffer = "NULL" /\ back_buffer = "NULL"
    /\ DOMAIN draw_buffer = {}
    /\ frames = 0
    /\ gen = 0

\* C7 as stated: whenever height or width is not an integer in 1..2000 or
\* max_FPS is not an integer in 0..4800, main reports 'bad input' and returns
\* 1 with nothing allocated, written or computed; the loop is reached only
\* with all three in range, so never with height = 0 or width = 0.
C7_BadInputAlwaysReported ==
    LET a == Shifted(argv)
        ok == /\ HasThreeArgs(argv)
              /\ IsIntegerIn(a[1], MIN_DIM, MAX_DIM)
              /\ IsIntegerIn(a[2], MIN_DIM, MAX_DIM)
              /\ IsIntegerIn(a[3], MIN_FPS, MAX_FPS)
    IN  /\ (pc = "exit" /\ ~ok) => (msg = "bad input" /\ exit_code = 1 /\ NothingDone)
        /\ pc \in LoopPcs => (ok /\ height >= 1 /\ width >= 1)

\* C7, amended: the encoder and the stepper are never called with height = 0
\* or width = 0.  When main does not take the usage branch and strtoul does
\* not convert all of the height or width argument to a value in 1..2000, or
\* all of the max_FPS argument to a value in 0..4800, main reports 'bad
\* input' and returns 1 with nothing allocated, written or computed; on the
\* usage branch it prints the usage message and returns 0, also with nothing
\* allocated, written or computed.  Past the validation, height, width and
\* max_fps are the converted values, in range.
C7_Validation ==
    LET a == Shifted(argv)
        ok == /\ ConvertsInto(a[1], MIN_DIM, MAX_DIM)
              /\ ConvertsInto(a[2], MIN_DIM, MAX_DIM)
              /\ ConvertsInto(a[3], MIN_FPS, MAX_FPS)
    IN  /\ (pc = "exit" /\ WantsUsage(argv)) =>
              (msg = "usage" /\ exit_code = 0 /\ NothingDone)
        /\ (pc = "exit" /\ ~WantsUsage(argv) /\ ~ok) =>
              (msg = "bad input" /\ exit_code = 1 /\ NothingDone)
        /\ (pc \notin {"main", "exit"} \/ (pc = "exit" /\ msg \notin {"usage", "bad input"})) =>
              /\ ~WantsUsage(argv) /\ ok
              /\ height \in MIN_DIM .. MAX_DIM
              /\ width \in MIN_DIM .. MAX_DIM
              /\ max_fps \in MIN_FPS .. MAX_FPS
              /\ height = NumeralValue(SelectSeq(a[1], LAMBDA c : c \in Digits))
              /\ width = NumeralValue(SelectSeq(a[2], LAMBDA c : c \in Digits))
        /\ pc \in {"encode", "step"} => (height >= 1 /\ width >= 1)

\* a command line with a zero width was rejected
C7_Witness ==
    /\ pc = "exit"
    /\ msg = "bad input"
    /\ exit_code = 1
    /\ ~WantsUsage(argv)
    /\ argv[1] = <<"2">> /\ argv[2] = <<"0">>

\* C8: front_buffer and back_buffer always name the two different physical
\* buffers, and the call of do_gen_naive leaves the grid of back_buffer (its
\* src) as it was.
C8_NoAliasing ==
    [][ /\ pc' \in LoopPcs =>
              /\ front_buffer' # back_buffer'
              /\ {front_buffer', back_buffer'} = {"A", "B"}
        /\ (pc = "step" /\ pc' # pc) =>
              /\ front_buffer # back_buffer
              /\ mem'[back_buffer] = mem[back_buffer]
              /\ \A b \in {"A", "B"} \ {front_buffer} : mem'[b] = mem[b]
      ]_vars

\* two rotations and two steps have been done, and the second step changed dst
C8_Witness ==
    /\ pc = "loop" /\ gen = 2
    /\ front_buffer = "A" /\ back_buffer = "B"
    /\ mem["A"] # mem["B"]
    /\ mem["A"] # G0

IsBinary(g) == \A i \in DOMAIN g : g[i] \in {0, 1}

\* C9: the randomisation leaves every cell of front_buffer 0 or 1, the copy
\* makes back_buffer equal to it, from then on every cell of both buffers is
\* 0 or 1, and the index the encoder computes is in 0 .. 3.
C9_CellsBinary ==
    /\ pc = "memcpy" =>
          (IsBinary(mem[front_buffer])
              /\ DOMAIN mem[front_buffer] = 0 .. height * width - 1)
    /\ pc = "init_codes" => mem[back_buffer] = mem[front_buffer]
    /\ (pc = "init_codes" \/ InLoopOrAfter) =>
          /\ IsBinary(mem["A"]) /\ IsBinary(mem["B"])
          /\ DOMAIN mem["A"] = 0 .. height * width - 1
          /\ DOMAIN mem["B"] = 0 .. height * width - 1
    /\ pc = "encode" =>
          \A i \in 0 .. height * width - 1 :
              TokenIndex(mem[front_buffer][i], mem[back_buffer][i]) \in 0 .. 3

\* the third frame is about to be encoded, with live and dead cells around
C9_Witness ==
    /\ pc = "encode" /\ gen = 3
    /\ \E i \in DOMAIN mem["A"] : mem["A"][i] = 1
    /\ \E i \in DOMAIN mem["B"] : mem["B"][i] = 1
    /\ \E i \in DOMAIN mem["A"] : mem["A"][i] = 0

\* the state of main at its return from the loop
LoopLeft == pc = "exit" /\ gen > 0

C10_Frames ==
    /\ frames <= GEN_LIMIT
    /\ last_gen = frames
    /\ frames \in {gen - 1, gen}
    /\ LoopLeft =>
          /\ exit_code = 0
          /\ reset_written => frames < GEN_LIMIT
          /\ ~reset_written => (frames = GEN_LIMIT /\ gen = GEN_LIMIT + 1)
          /\ status # SIGINT => frames = GEN_LIMIT

\* the position of main within one iteration, counted down to the loop test
Rank ==
    CASE pc = "main" -> 5 [] pc = "alloc" -> 4 [] pc = "randomize" -> 3
      [] pc = "memcpy" -> 2 [] pc = "init_codes" -> 1
      [] pc = "encode" -> 5 [] pc = "draw" -> 4 [] pc = "rotate" -> 3
      [] pc = "step" -> 2 [] pc = "sleep" -> 1
      [] OTHER -> 0

\* the number of steps main has left at most
Measure == (GEN_LIMIT + 1 - gen) * 6 + Rank

\* C10: the loop of main terminates (main can take a step wherever it has not
\* returned, and every step of main lowers a measure that is never
\* negative); the frames it writes are numbered 1, 2, ... without a gap or a
\* repetition; left without cancellation it has written exactly 50000 frames
\* and main returns 0; left by cancellation it has written fewer; never more
\* than 50000.
C10_Terminates ==
    /\ [](C10_Frames /\ Measure >= 0)
    /\ [](pc # "exit" => ENABLED (MainStep \/ LoopTest))
    /\ [][ /\ (pc' # pc \/ gen' # gen) => Measure' < Measure
           /\ frames' # frames => (frames' = frames + 1 /\ last_gen' = last_gen + 1)
         ]_vars

\* the loop ran to its end without a signal
C10_Witness ==
    /\ LoopLeft
    /\ status = 0
    /\ frames = GEN_LIMIT
    /\ last_gen = GEN_LIMIT
    /\ exit_code = 0

====
